---- MODULE Spec2Model ----
(***************************************************************************)
(* The speech-recognition lifecycle controller of Grocerli                 *)
(* (src/src/hooks/useSpeechRecognition.ts): the hook's state and refs, its *)
(* three public methods, the four engine event handlers, the two timer     *)
(* callbacks, the effect that builds the engine binding and its cleanups.  *)
(*                                                                         *)
(* React state setters are taken to act at once; one handler is one step   *)
(* (the runtime is single-threaded and no handler awaits).                 *)
(***************************************************************************)
EXTENDS Integers, Sequences, FiniteSets, TLC

\* ------------------------------------------------------------- bounds
MaxEngines == 2      \* engine bindings built over the hook's life
MaxHyps == 2         \* hypotheses carried by one result event
MaxFinalLen == 1     \* characters finalTranscript may accumulate (lifecycle)
MaxTextLen == 2      \* characters finalTranscript may accumulate (text)
MaxStartCalls == 3   \* where the per-session count of start() saturates

\* ------------------------------------------------- program constants
DefaultTimeout == 3000   \* timeout = 3000 (line 32)
RestartDelay == 100      \* setTimeout(..., 100) of the audioend handler (line 91)
NoTimer == 0             \* useRef<NodeJS.Timeout | null>(null)
NoEngine == 0            \* useRef<any>(null)

Chars == {"a", "b"}
ErrorKinds == {"aborted", "no-speech", "not-allowed", "network", "audio-capture"}
TimeoutChoices == {0, DefaultTimeout}
TickMs == DefaultTimeout   \* one Tick advances the clock by one timeout window

Min(a, b) == IF a < b THEN a ELSE b
Max(a, b) == IF a > b THEN a ELSE b

VARIABLES
    hasSpeechRecognition, \* window.SpeechRecognition || window.webkitSpeechRecognition
    mounted,              \* the consumer has not been disposed
    isSupported, isListening, transcript, finalTranscript, manuallyStopped,
    isListeningRef, manuallyStoppedRef, forceStoppedRef, stopRequestedRef,
    recognitionRef,       \* NoEngine or the index in engines of the bound engine
    inactivityTimeoutRef, audioendTimeoutRef,   \* NoTimer or a timer id
    continuous, timeout,  \* the consumer's options, taken as fixed over the hook's life
                          \* (the bindings are rebuilt when another dependency of
                          \* line 191 changes: lang, interimResults or a callback)
    engines,              \* every engine built and whether it is idle, running or stopping
    timers,               \* the pending setTimeout entries; old: armed before the
                          \* latest startListening() that started the engine
    last,                 \* what the latest step was and which calls it made, in order
    stopCalled,           \* stopListening() ran and no startListening() ran since
    fatalSeen,            \* a not-allowed/network error arrived and no startListening() ran since
    quiet,                \* ms since the latest of startListening() and the last result event
    startCalls            \* start() invocations made for the current session

vars == <<hasSpeechRecognition, mounted, isSupported, isListening, transcript,
          finalTranscript, manuallyStopped, isListeningRef, manuallyStoppedRef,
          forceStoppedRef, stopRequestedRef, recognitionRef, inactivityTimeoutRef,
          audioendTimeoutRef, continuous, timeout, engines, timers, last, stopCalled, fatalSeen, quiet,
          startCalls>>

flagVars == <<isListening, manuallyStopped, isListeningRef, manuallyStoppedRef,
              forceStoppedRef, stopRequestedRef>>
textVars == <<transcript, finalTranscript>>
timerVars == <<inactivityTimeoutRef, audioendTimeoutRef, timers>>
bindVars == <<hasSpeechRecognition, mounted, isSupported, recognitionRef, continuous,
             timeout>>
ghostVars == <<stopCalled, fatalSeen, quiet, startCalls>>

\* ------------------------------------------------------------ helpers

\* The session state a caller or a handler can observe.
SessionView ==
    [isListening |-> isListening, isListeningRef |-> isListeningRef,
     stopRequestedRef |-> stopRequestedRef, manuallyStoppedRef |-> manuallyStoppedRef,
     forceStoppedRef |-> forceStoppedRef, transcript |-> transcript,
     finalTranscript |-> finalTranscript,
     inactivityTimeoutRef |-> inactivityTimeoutRef,
     audioendTimeoutRef |-> audioendTimeoutRef, timers |-> timers]

\* One entry of last.calls: an engine primitive or a consumer callback, the
\* engine it concerns, and what it was given or could observe when called.
Call(f, g, seen) == <<f, g, seen>>

\* last: the handler that ran, the engine it ran for, its input, whether it got
\* past its early return, its calls in order, whether an exception left it,
\* and whether it is a stopListening() that follows a stopListening().
Step(op, g, input, ran, calls, escaped) ==
    [op |-> op, gen |-> g, input |-> input, ran |-> ran, calls |-> calls,
     escaped |-> escaped, again |-> (op = "stopListening" /\ last.op = op /\ last.ran)]

CountCalls(calls, f) == Cardinality({i \in DOMAIN calls : calls[i][1] = f})

\* try { body } catch { handler }: the exception leaves the block only when
\* the body threw and the handler threw as well.
TryCatch(bodyThrew, handlerThrew) == bodyThrew /\ handlerThrew

\* clearTimeout(handle)
ClearTimeout(tms, handle) == {t \in tms : t.id # handle}

\* setTimeout returns an id no pending timer and no handle holds.
FreshId(tms, h1, h2) ==
    LET used == {t.id : t \in tms} \cup {h1, h2}
    IN  CHOOSE n \in 1..(Cardinality(used) + 1) :
            /\ n \notin used
            /\ \A m \in 1..(n - 1) : m \in used

\* The engine's primitives.  start() on an engine that is not idle throws
\* ("already started"); each primitive may also throw for its own reasons.
StartThrowChoices(g) == IF engines[g].st = "idle" THEN BOOLEAN ELSE {TRUE}

EngineStarted(g, threw) ==
    IF threw THEN engines ELSE [engines EXCEPT ![g].st = "running"]

EngineHalted(g, threw) ==
    IF threw \/ engines[g].st = "idle" THEN engines
    ELSE [engines EXCEPT ![g].st = "stopping"]

NewEngine == [st |-> "idle"]

\* The timers that were pending when a new session began.
Outlived(tms) == {[t EXCEPT !.old = TRUE] : t \in tms}

Bump(n) == Min(n + 1, MaxStartCalls)

\* --------------------------------------------------------------- Init

ProbeAlwaysSupported(has) == TRUE

\* The capability probe of lines 55-58: isSupported after the first effect.
Probe(has) == has

\* The state after the first render and its effects (lines 39-51, 54-66, 180).
Init ==
    /\ hasSpeechRecognition \in BOOLEAN
    /\ mounted = TRUE
    /\ isSupported = Probe(hasSpeechRecognition)
    /\ isListening = FALSE
    /\ transcript = <<>>
    /\ finalTranscript = <<>>
    /\ manuallyStopped = FALSE
    /\ isListeningRef = FALSE
    /\ manuallyStoppedRef = FALSE
    /\ forceStoppedRef = FALSE
    /\ stopRequestedRef = FALSE
    /\ timeout \in TimeoutChoices
    /\ continuous \in BOOLEAN
    /\ engines = IF hasSpeechRecognition THEN <<NewEngine>> ELSE <<>>
    /\ recognitionRef = IF hasSpeechRecognition THEN 1 ELSE NoEngine
    /\ inactivityTimeoutRef = NoTimer
    /\ audioendTimeoutRef = NoTimer
    /\ timers = {}
    /\ last = [op |-> "init", gen |-> NoEngine, input |-> <<>>, ran |-> TRUE,
               calls |-> <<>>, escaped |-> FALSE, again |-> FALSE]
    /\ stopCalled = FALSE
    /\ fatalSeen = FALSE
    /\ quiet = 0
    /\ startCalls = 0

\* ----------------------------------------------------- public methods

StartCallViewBeforeClear ==
    [SessionView EXCEPT
        !.stopRequestedRef = FALSE, !.isListening = TRUE, !.isListeningRef = TRUE,
        !.manuallyStoppedRef = FALSE, !.forceStoppedRef = FALSE]

\* What start() finds when line 220 calls it: lines 211-219 have run.
StartCallView ==
    [SessionView EXCEPT
        !.stopRequestedRef = FALSE, !.isListening = TRUE, !.isListeningRef = TRUE,
        !.manuallyStoppedRef = FALSE, !.forceStoppedRef = FALSE,
        !.transcript = <<>>, !.finalTranscript = <<>>]

\* A start that leaves stopRequested as the last stop left it.
StartResetsKeepStopRequested ==
    [stopRequestedRef |-> stopRequestedRef, manuallyStopped |-> FALSE,
     manuallyStoppedRef |-> FALSE, forceStoppedRef |-> FALSE]

\* A start that leaves forceStopped as the last stop left it.
StartResetsKeepForceStopped ==
    [stopRequestedRef |-> FALSE, manuallyStopped |-> FALSE, manuallyStoppedRef |-> FALSE,
     forceStoppedRef |-> forceStoppedRef]

\* The flags startListening resets before it calls start() (lines 211-216).
StartResets ==
    [stopRequestedRef |-> FALSE, manuallyStopped |-> FALSE, manuallyStoppedRef |-> FALSE,
     forceStoppedRef |-> FALSE]

\* A catch block that reverts the public flag and forgets the shadow flag.
StartOutcomeKeepsShadow(threw) == [isListening |-> ~threw, isListeningRef |-> TRUE]

\* isListening and its shadow on return: set true before start() (lines
\* 212-213), reverted by the catch block if start() threw (lines 223-224).
StartOutcome(threw) == [isListening |-> ~threw, isListeningRef |-> ~threw]

\* startListening (lines 206-226)
StartListening ==
    /\ mounted
    /\ IF ~isSupported \/ recognitionRef = NoEngine
       THEN /\ last' = Step("startListening", NoEngine, <<>>, FALSE, <<>>, FALSE)
            /\ UNCHANGED <<flagVars, textVars, timerVars, bindVars, ghostVars, engines>>
       ELSE \E threw \in StartThrowChoices(recognitionRef) :
            LET atCall == StartCallView
            IN  /\ stopRequestedRef' = StartResets.stopRequestedRef
                /\ manuallyStopped' = StartResets.manuallyStopped
                /\ manuallyStoppedRef' = StartResets.manuallyStoppedRef
                /\ forceStoppedRef' = StartResets.forceStoppedRef
                /\ transcript' = <<>>
                /\ finalTranscript' = <<>>
                /\ isListening' = StartOutcome(threw).isListening
                /\ isListeningRef' = StartOutcome(threw).isListeningRef
                /\ engines' = EngineStarted(recognitionRef, threw)
                /\ last' = Step("startListening", recognitionRef,
                                <<threw, transcript # <<>> /\ finalTranscript # <<>>,
                                  stopRequestedRef>>, TRUE,
                                <<Call("start", recognitionRef, atCall)>>,
                                TryCatch(threw, FALSE))
                /\ stopCalled' = FALSE
                /\ fatalSeen' = FALSE
                /\ quiet' = 0
                /\ startCalls' = 1
                /\ timers' = IF threw THEN timers ELSE Outlived(timers)
                /\ UNCHANGED <<inactivityTimeoutRef, audioendTimeoutRef, bindVars>>

StoppedFlagsToggled ==
    [stopRequestedRef |-> TRUE, isListening |-> FALSE, isListeningRef |-> FALSE,
     manuallyStopped |-> ~manuallyStopped, manuallyStoppedRef |-> ~manuallyStoppedRef,
     forceStoppedRef |-> TRUE]

\* The flags stopListening stores (lines 232-239, again 264-266).
StoppedFlags ==
    [stopRequestedRef |-> TRUE, isListening |-> FALSE, isListeningRef |-> FALSE,
     manuallyStopped |-> TRUE, manuallyStoppedRef |-> TRUE, forceStoppedRef |-> TRUE]

StopCancelsRestartOnly(tms) == ClearTimeout(tms, audioendTimeoutRef)

\* The timers stopListening leaves pending (lines 242-249).
StopCancels(tms) ==
    ClearTimeout(ClearTimeout(tms, inactivityTimeoutRef), audioendTimeoutRef)

\* A stop sequence that invokes stop() after abort() whatever abort() did.
ForceStopBothPrimitives(g, seen, abortThrew, stopThrew) ==
    [calls |-> <<Call("abort", g, seen), Call("stop", g, seen)>>,
     escaped |-> TryCatch(abortThrew, TryCatch(stopThrew, FALSE))]

ForceStopBareFallback(g, seen, abortThrew, stopThrew) ==
    [calls |-> IF abortThrew
               THEN <<Call("abort", g, seen), Call("stop", g, seen)>>
               ELSE <<Call("abort", g, seen)>>,
     escaped |-> TryCatch(abortThrew, stopThrew)]

\* The nested try of lines 252-261: abort(), then stop() if abort() threw.
ForceStop(g, seen, abortThrew, stopThrew) ==
    [calls |-> IF abortThrew
               THEN <<Call("abort", g, seen), Call("stop", g, seen)>>
               ELSE <<Call("abort", g, seen)>>,
     escaped |-> TryCatch(abortThrew, TryCatch(stopThrew, FALSE))]

\* stopListening (lines 228-267)
StopListening ==
    /\ mounted
    /\ IF recognitionRef = NoEngine
       THEN /\ last' = Step("stopListening", NoEngine, <<>>, FALSE, <<>>, FALSE)
            /\ UNCHANGED <<flagVars, textVars, timerVars, bindVars, ghostVars, engines>>
       ELSE \E abortThrew \in BOOLEAN, stopThrew \in BOOLEAN :
            LET cleared == StopCancels(timers)
                f == StoppedFlags
                atCall == [SessionView EXCEPT
                              !.stopRequestedRef = f.stopRequestedRef,
                              !.isListening = f.isListening,
                              !.isListeningRef = f.isListeningRef,
                              !.manuallyStoppedRef = f.manuallyStoppedRef,
                              !.forceStoppedRef = f.forceStoppedRef,
                              !.inactivityTimeoutRef = NoTimer,
                              !.audioendTimeoutRef = NoTimer, !.timers = cleared]
                g == recognitionRef
                halt == ForceStop(g, atCall, abortThrew, stopThrew)
            IN  /\ stopRequestedRef' = f.stopRequestedRef
                /\ isListening' = f.isListening
                /\ isListeningRef' = f.isListeningRef
                /\ manuallyStopped' = f.manuallyStopped
                /\ manuallyStoppedRef' = f.manuallyStoppedRef
                /\ forceStoppedRef' = f.forceStoppedRef
                /\ timers' = cleared
                /\ inactivityTimeoutRef' = NoTimer
                /\ audioendTimeoutRef' = NoTimer
                /\ engines' = EngineHalted(g, abortThrew /\ stopThrew)
                /\ last' = Step("stopListening", g, <<abortThrew, stopThrew>>, TRUE,
                                halt.calls, halt.escaped)
                /\ stopCalled' = TRUE
                /\ UNCHANGED <<textVars, bindVars, fatalSeen, quiet, startCalls>>

\* A resetTranscript that also ends the session's public listening state.
ResetTranscriptEndsListening ==
    /\ mounted
    /\ transcript' = <<>>
    /\ finalTranscript' = <<>>
    /\ isListening' = FALSE
    /\ last' = Step("resetTranscript", NoEngine,
                    <<transcript # <<>>, finalTranscript # <<>> >>, TRUE, <<>>, FALSE)
    /\ UNCHANGED <<manuallyStopped, isListeningRef, manuallyStoppedRef, forceStoppedRef,
                   stopRequestedRef, timerVars, bindVars, ghostVars, engines>>

\* A resetTranscript that clears the interim transcript alone.
ResetTranscriptInterimOnly ==
    /\ mounted
    /\ transcript' = <<>>
    /\ last' = Step("resetTranscript", NoEngine,
                    <<transcript # <<>>, finalTranscript # <<>> >>, TRUE, <<>>, FALSE)
    /\ UNCHANGED <<finalTranscript, flagVars, timerVars, bindVars, ghostVars, engines>>

\* resetTranscript (lines 269-272)
ResetTranscript ==
    /\ mounted
    /\ transcript' = <<>>
    /\ finalTranscript' = <<>>
    /\ last' = Step("resetTranscript", NoEngine,
                    <<transcript # <<>>, finalTranscript # <<>> >>, TRUE, <<>>, FALSE)
    /\ UNCHANGED <<flagVars, timerVars, bindVars, ghostVars, engines>>

\* -------------------------------------------------- engine event input

\* A result event: the engine's whole result list and its resultIndex cursor
\* (0-based, as in the handler's loop).
Hypotheses == [isFinal : BOOLEAN, transcript : {<<c>> : c \in Chars}]

ResultEvents ==
    UNION {[resultIndex : 0..(n - 1), results : [1..n -> Hypotheses]] : n \in 1..MaxHyps}

RECURSIVE CollectEveryHypothesis(_, _, _)
CollectEveryHypothesis(results, i, wanted) ==
    IF i > Len(results) THEN <<>>
    ELSE results[i].transcript \o CollectEveryHypothesis(results, i + 1, wanted)

RECURSIVE Collect(_, _, _)
\* The loop of lines 121-128: the texts of the hypotheses from position i
\* (1-based here) whose isFinal flag is wanted, concatenated in order.
Collect(results, i, wanted) ==
    IF i > Len(results) THEN <<>>
    ELSE (IF results[i].isFinal = wanted THEN results[i].transcript ELSE <<>>)
         \o Collect(results, i + 1, wanted)

\* The events the lifecycle specification draws: one new hypothesis, final or
\* interim.  Events with several hypotheses belong to the text specification.
LifecycleEvents ==
    {ev \in ResultEvents : Len(ev.results) = 1 /\ ev.results[1].transcript = <<"a">>}

FinalText(ev) == Collect(ev.results, ev.resultIndex + 1, TRUE)
InterimText(ev) == Collect(ev.results, ev.resultIndex + 1, FALSE)

Live(g) == engines[g].st # "idle"

\* ------------------------------------------------------ engine events

\* The guard of line 79, read after line 69 has stored false in isListeningRef.
AudioEndSchedules(ref) ==
    /\ ref
    /\ continuous
    /\ ~manuallyStoppedRef
    /\ ~forceStoppedRef

\* An audioend handler that restarts the engine itself, asking no flag.
AudioEndRestartsAtOnce(g) ==
    /\ Live(g)
    /\ IF continuous /\ recognitionRef # NoEngine
       THEN \E threw \in StartThrowChoices(recognitionRef) :
               /\ engines' = EngineStarted(recognitionRef, threw)
               /\ isListeningRef' = ~threw
               /\ last' = Step("audioend", g, <<>>, TRUE,
                               <<Call("start", recognitionRef, SessionView)>>,
                               TryCatch(threw, FALSE))
               /\ startCalls' = Bump(startCalls)
       ELSE /\ isListeningRef' = FALSE
            /\ last' = Step("audioend", g, <<>>, TRUE, <<>>, FALSE)
            /\ UNCHANGED <<engines, startCalls>>
    /\ UNCHANGED <<isListening, manuallyStopped, manuallyStoppedRef, forceStoppedRef,
                   stopRequestedRef, textVars, timerVars, bindVars, stopCalled,
                   fatalSeen, quiet>>

\* An audioend handler that schedules the restart whenever the session is
\* continuous, asking no flag.
AudioEndSchedulesBlindly(g) ==
    /\ Live(g)
    /\ isListeningRef' = FALSE
    /\ IF continuous
       THEN LET id == FreshId(timers, inactivityTimeoutRef, audioendTimeoutRef)
            IN  /\ audioendTimeoutRef' = id
                /\ timers' = timers \cup {[id |-> id, kind |-> "restart", left |-> RestartDelay,
                                         old |-> FALSE]}
       ELSE UNCHANGED <<audioendTimeoutRef, timers>>
    /\ last' = Step("audioend", g, <<>>, TRUE, <<>>, FALSE)
    /\ UNCHANGED <<isListening, manuallyStopped, manuallyStoppedRef, forceStoppedRef,
                   stopRequestedRef, textVars, inactivityTimeoutRef, bindVars,
                   ghostVars, engines>>

\* audioend handler (lines 68-93)
AudioEnd(g) ==
    /\ Live(g)
    /\ isListeningRef' = FALSE
    /\ IF ~stopRequestedRef /\ AudioEndSchedules(FALSE)
       THEN LET id == FreshId(timers, inactivityTimeoutRef, audioendTimeoutRef)
            IN  /\ audioendTimeoutRef' = id
                /\ timers' = timers \cup {[id |-> id, kind |-> "restart", left |-> RestartDelay,
                                         old |-> FALSE]}
       ELSE UNCHANGED <<audioendTimeoutRef, timers>>
    /\ last' = Step("audioend", g, <<>>, TRUE, <<>>, FALSE)
    /\ UNCHANGED <<isListening, manuallyStopped, manuallyStoppedRef, forceStoppedRef,
                   stopRequestedRef, textVars, inactivityTimeoutRef, bindVars,
                   ghostVars, engines>>

\* The state bound of a specification: finalTranscript stays within max.
Fits(ev, max) == Len(finalTranscript) + Len(FinalText(ev)) <= max

\* A result handler that cancels nothing before it reschedules.
ResultCancelsNothing(tms) == tms

\* A result handler that clears the restart handle in place of its own.
ResultCancelsRestartHandle(tms) == ClearTimeout(tms, audioendTimeoutRef)

\* The timers the result handler leaves pending before it reschedules
\* (lines 98-100).
ResultCancels(tms) == ClearTimeout(tms, inactivityTimeoutRef)

\* setFinalTranscript(finalText) in place of the updater of line 131.
AppendedReplaces(prev, finalText) == finalText

\* finalTranscript after the event (lines 130-131); prev + '' is prev.
Appended(prev, finalText) == prev \o finalText

\* setTranscript(prev => prev + interimTranscript) in place of line 136.
ReplacedAppends(prev, interimTranscript) == prev \o interimTranscript

\* transcript after the event (lines 135-136).
Replaced(prev, interimTranscript) ==
    IF interimTranscript # <<>> THEN interimTranscript ELSE prev

\* The two if blocks of lines 130-138 in the other order.
ResultCallsInterimFirst(g, finalText, interimTranscript) ==
    (IF interimTranscript # <<>>
     THEN <<Call("onResult", g, <<interimTranscript, FALSE>>)>> ELSE <<>>)
    \o (IF finalText # <<>> THEN <<Call("onResult", g, <<finalText, TRUE>>)>> ELSE <<>>)

\* The onResult calls of one event, in order (lines 132, 137).
ResultCalls(g, finalText, interimTranscript) ==
    (IF finalText # <<>> THEN <<Call("onResult", g, <<finalText, TRUE>>)>> ELSE <<>>)
    \o (IF interimTranscript # <<>>
        THEN <<Call("onResult", g, <<interimTranscript, FALSE>>)>> ELSE <<>>)

\* A result handler that reschedules without asking the shadow flag.
ResultArmsUnguarded == timeout > 0

\* The condition under which the result handler schedules the inactivity
\* timer (line 103).
ResultArms == timeout > 0 /\ isListeningRef

\* result handler (lines 96-139)
Result(g, ev) ==
    /\ Live(g)
    /\ LET cleared == ResultCancels(timers)
           id == FreshId(cleared, NoTimer, audioendTimeoutRef)
           finalText == FinalText(ev)
           interimTranscript == InterimText(ev)
       IN  /\ IF ResultArms
              THEN /\ inactivityTimeoutRef' = id
                   /\ timers' = cleared \cup
                         {[id |-> id, kind |-> "inactivity", left |-> timeout,
                           old |-> FALSE]}
              ELSE /\ timers' = cleared
                   /\ UNCHANGED inactivityTimeoutRef
           /\ finalTranscript' = Appended(finalTranscript, finalText)
           /\ transcript' = Replaced(transcript, interimTranscript)
           /\ last' = Step("result", g, ev, TRUE,
                           ResultCalls(g, finalText, interimTranscript), FALSE)
    /\ quiet' = 0
    /\ UNCHANGED <<flagVars, audioendTimeoutRef, bindVars, engines, stopCalled,
                   fatalSeen, startCalls>>

AbsorbedAbortedOnly(kind) == kind = "aborted"

\* The kinds the error handler returns on at once (lines 143-154).
Absorbed(kind) == kind = "aborted" \/ kind = "no-speech"

\* An error handler that ends listening on every kind it reports.
FatalEveryReported(kind) == TRUE

FatalPermissionOnly(kind) == kind = "not-allowed"

\* The kinds that force isListening false (line 160).
Fatal(kind) == kind = "network" \/ kind = "not-allowed"

\* error handler (lines 141-163)
Error(g, kind) ==
    /\ Live(g)
    /\ IF Absorbed(kind)
       THEN /\ last' = Step("error", g, kind, TRUE, <<>>, FALSE)
            /\ UNCHANGED <<isListening, fatalSeen>>
       ELSE /\ last' = Step("error", g, kind, TRUE, <<Call("onError", g, kind)>>, FALSE)
            /\ isListening' = IF Fatal(kind) THEN FALSE ELSE isListening
            /\ fatalSeen' = (fatalSeen \/ kind = "network" \/ kind = "not-allowed")
    /\ UNCHANGED <<manuallyStopped, isListeningRef, manuallyStoppedRef, forceStoppedRef,
                   stopRequestedRef, textVars, timerVars, bindVars, engines,
                   stopCalled, quiet, startCalls>>

\* An end handler that notifies the consumer whatever manuallyStopped says.
EndAlwaysNotifies(g) ==
    /\ Live(g)
    /\ isListeningRef' = FALSE
    /\ last' = Step("end", g, <<>>, TRUE, <<Call("onEnd", g, <<>>)>>, FALSE)
    /\ IF ~continuous \/ manuallyStoppedRef
       THEN /\ isListening' = FALSE
            /\ manuallyStopped' = FALSE
            /\ manuallyStoppedRef' = FALSE
       ELSE UNCHANGED <<isListening, manuallyStopped, manuallyStoppedRef>>
    /\ engines' = [engines EXCEPT ![g].st = "idle"]
    /\ UNCHANGED <<forceStoppedRef, stopRequestedRef, textVars, timerVars, bindVars,
                   ghostVars>>

\* An end handler that resets stopRequested together with manuallyStopped.
EndClearsStopRequested(g) ==
    /\ Live(g)
    /\ isListeningRef' = FALSE
    /\ last' = Step("end", g, <<>>, TRUE,
                    IF ~manuallyStoppedRef THEN <<Call("onEnd", g, <<>>)>> ELSE <<>>,
                    FALSE)
    /\ IF ~continuous \/ manuallyStoppedRef
       THEN /\ isListening' = FALSE
            /\ manuallyStopped' = FALSE
            /\ manuallyStoppedRef' = FALSE
            /\ stopRequestedRef' = FALSE
       ELSE UNCHANGED <<isListening, manuallyStopped, manuallyStoppedRef, stopRequestedRef>>
    /\ engines' = [engines EXCEPT ![g].st = "idle"]
    /\ UNCHANGED <<forceStoppedRef, textVars, timerVars, bindVars, ghostVars>>

\* end handler (lines 165-178); the engine that ended is idle again.
End(g) ==
    /\ Live(g)
    /\ isListeningRef' = FALSE
    /\ last' = Step("end", g, <<>>, TRUE,
                    IF ~manuallyStoppedRef THEN <<Call("onEnd", g, <<>>)>> ELSE <<>>,
                    FALSE)
    /\ IF ~continuous \/ manuallyStoppedRef
       THEN /\ isListening' = FALSE
            /\ manuallyStopped' = FALSE
            /\ manuallyStoppedRef' = FALSE
       ELSE UNCHANGED <<isListening, manuallyStopped, manuallyStoppedRef>>
    /\ engines' = [engines EXCEPT ![g].st = "idle"]
    /\ UNCHANGED <<forceStoppedRef, stopRequestedRef, textVars, timerVars, bindVars,
                   ghostVars>>

\* ------------------------------------------------------------- timers

\* The guard of line 83.
RestartAllowed ==
    /\ isListeningRef
    /\ ~manuallyStoppedRef
    /\ ~forceStoppedRef
    /\ ~stopRequestedRef
    /\ recognitionRef # NoEngine

\* restart-debounce callback (lines 81-91)
RestartCallback ==
    IF RestartAllowed
    THEN \E threw \in StartThrowChoices(recognitionRef) :
            /\ engines' = EngineStarted(recognitionRef, threw)
            /\ isListeningRef' = IF threw THEN isListeningRef ELSE TRUE
            /\ last' = Step("restartTimer", recognitionRef, threw, TRUE,
                            <<Call("start", recognitionRef, SessionView)>>,
                            TryCatch(threw, FALSE))
            /\ startCalls' = Bump(startCalls)
            /\ UNCHANGED isListening
    ELSE /\ last' = Step("restartTimer", NoEngine, <<>>, FALSE, <<>>, FALSE)
         /\ UNCHANGED <<isListening, isListeningRef, engines, startCalls>>

\* A watchdog guard that does not ask the shadow flag.
WatchdogAllowedNoShadow ==
    /\ recognitionRef # NoEngine
    /\ ~manuallyStoppedRef

\* The guard of line 105.
WatchdogAllowed ==
    /\ isListeningRef
    /\ recognitionRef # NoEngine
    /\ ~manuallyStoppedRef

\* inactivity-timeout callback (lines 104-114)
InactivityCallback ==
    IF WatchdogAllowed
    THEN \E threw \in BOOLEAN :
            /\ engines' = EngineHalted(recognitionRef, threw)
            /\ isListening' = IF threw THEN isListening ELSE FALSE
            /\ isListeningRef' = IF threw THEN isListeningRef ELSE FALSE
            /\ last' = Step("inactivityTimer", recognitionRef, threw, TRUE,
                            <<Call("abort", recognitionRef, SessionView)>>,
                            TryCatch(threw, FALSE))
            /\ UNCHANGED startCalls
    ELSE /\ last' = Step("inactivityTimer", NoEngine, <<>>, FALSE, <<>>, FALSE)
         /\ UNCHANGED <<isListening, isListeningRef, engines, startCalls>>

\* A pending timer whose delay has run out fires; its handle keeps the id.
TimerFire(t) ==
    /\ t \in timers
    /\ t.left = 0
    /\ timers' = timers \ {t}
    /\ IF t.kind = "restart" THEN RestartCallback ELSE InactivityCallback
    /\ UNCHANGED <<manuallyStopped, manuallyStoppedRef, forceStoppedRef, stopRequestedRef,
                   textVars, inactivityTimeoutRef, audioendTimeoutRef, bindVars,
                   stopCalled, fatalSeen, quiet>>

\* Time passes; a due timer fires before the clock moves on.
Tick ==
    /\ \A t \in timers : t.left > 0
    /\ timers # {} \/ (isListening /\ quiet < DefaultTimeout)
    /\ timers' = {[t EXCEPT !.left = Max(t.left - TickMs, 0)] : t \in timers}
    /\ quiet' = IF isListening THEN Min(quiet + TickMs, DefaultTimeout) ELSE quiet
    /\ last' = Step("tick", NoEngine, <<>>, TRUE, <<>>, FALSE)
    /\ UNCHANGED <<flagVars, textVars, inactivityTimeoutRef, audioendTimeoutRef,
                   bindVars, engines, stopCalled, fatalSeen, startCalls>>

\* ------------------------------------------------- effects of the hook

\* A cleanup that clears the restart handle only.
CleanupRestartOnly == ClearTimeout(timers, audioendTimeoutRef)

\* The cleanup both effects return (lines 183-190, 196-203).
CleanupTimers == ClearTimeout(ClearTimeout(timers, inactivityTimeoutRef), audioendTimeoutRef)

\* A dependency of line 191 changed: the effect's cleanup runs, then the effect
\* builds a new engine and binds it.  The replaced engine keeps its listeners
\* and is not stopped.
Rebuild ==
    /\ mounted
    /\ Len(engines) < MaxEngines
    /\ timers' = CleanupTimers
    /\ IF hasSpeechRecognition
       THEN /\ isSupported' = TRUE
            /\ engines' = Append(engines, NewEngine)
            /\ recognitionRef' = Len(engines) + 1
       ELSE UNCHANGED <<isSupported, engines, recognitionRef>>
    /\ last' = Step("rebuild", NoEngine, timers # {}, TRUE, <<>>, FALSE)
    /\ UNCHANGED <<flagVars, textVars, inactivityTimeoutRef, audioendTimeoutRef,
                   hasSpeechRecognition, mounted, continuous, timeout, ghostVars>>

\* Consumer disposal: the cleanups of both effects run (lines 183-190, 195-204).
Unmount ==
    /\ mounted
    /\ mounted' = FALSE
    /\ timers' = CleanupTimers
    /\ last' = Step("unmount", NoEngine, timers # {}, TRUE, <<>>, FALSE)
    /\ UNCHANGED <<flagVars, textVars, inactivityTimeoutRef, audioendTimeoutRef,
                   hasSpeechRecognition, isSupported, recognitionRef, continuous, timeout,
                   engines, ghostVars>>

Next ==
    \/ StartListening
    \/ StopListening
    \/ ResetTranscript
    \/ \E g \in DOMAIN engines : AudioEnd(g)
    \/ \E g \in DOMAIN engines, ev \in LifecycleEvents :
          Fits(ev, MaxFinalLen) /\ Result(g, ev)
    \/ \E g \in DOMAIN engines, kind \in ErrorKinds : Error(g, kind)
    \/ \E g \in DOMAIN engines : End(g)
    \/ \E t \in timers : TimerFire(t)
    \/ Tick
    \/ Rebuild
    \/ Unmount

Spec == Init /\ [][Next]_vars

\* The lifecycle under the scheduling the runtime guarantees: the clock moves
\* on and a setTimeout callback whose delay has run out is run (lines 81, 104).
\* Nothing obliges the consumer to call an operation or the engine to emit an
\* event.
SpecLive ==
    /\ Init
    /\ [][Next]_vars
    /\ WF_vars(Tick)
    /\ WF_vars(\E t \in timers : TimerFire(t))

\* The text specification: one engine that is started and then delivers every
\* result event of up to MaxHyps hypotheses over Chars.  The result handler
\* does not read continuous, and its text part (lines 117-138) does not read
\* timeout: the inactivity timer is armed as with the default options.
InitText == Init /\ hasSpeechRecognition /\ continuous /\ timeout = DefaultTimeout

NextText ==
    \/ StartListening
    \/ ResetTranscript
    \/ \E g \in DOMAIN engines, ev \in ResultEvents :
          Fits(ev, MaxTextLen) /\ Result(g, ev)

SpecText == InitText /\ [][NextText]_vars

\* A timer callback that runs although stopListening() has been called since
\* it was scheduled.  clearTimeout (lines 242-249) keeps the browser from ever
\* doing this; the action applies the callback bodies (lines 81-91, 104-114) to
\* the states in which stopRequested is true, so that what their guards do
\* there can be checked.
StaleFire(kind) ==
    /\ stopRequestedRef
    /\ IF kind = "restart" THEN RestartCallback ELSE InactivityCallback
    /\ UNCHANGED <<manuallyStopped, manuallyStoppedRef, forceStoppedRef, stopRequestedRef,
                   textVars, timerVars, bindVars, stopCalled, fatalSeen, quiet>>

NextFire ==
    \/ Next
    \/ \E kind \in {"restart", "inactivity"} : StaleFire(kind)

SpecFire == Init /\ [][NextFire]_vars

\* ------------------------------------------------------------- claims

PublicOps == {"startListening", "stopListening", "resetTranscript"}

NoDueTimer == \A t \in timers : t.left > 0

\* C1: after stopListening() and until the next startListening(), no step
\* invokes the engine's start primitive: not an audioend that arrives after
\* the stop, not a restart-debounce callback.
C1_NoStartAfterStop ==
    stopCalled => CountCalls(last.calls, "start") = 0

\* An audioend event delivered after stopListening(), before any new start.
C1_Witness ==
    /\ stopCalled
    /\ last.op = "audioend"
    /\ last.gen = recognitionRef

\* C2: when an engine binding exists, stopListening() leaves, on return and
\* whatever abort() and stop() did, stopRequested true, isListening and the
\* shadow flag false, manuallyStopped and forceStopped true, no timer pending
\* and both handles null.
C2_StopConverges ==
    (last.op = "stopListening" /\ last.ran) =>
        /\ stopRequestedRef
        /\ ~isListening
        /\ ~isListeningRef
        /\ manuallyStopped
        /\ manuallyStoppedRef
        /\ forceStoppedRef
        /\ timers = {}
        /\ inactivityTimeoutRef = NoTimer
        /\ audioendTimeoutRef = NoTimer

\* stopListening() returned after abort() and stop() both threw: the engine
\* still runs, the state has converged.
C2_Witness ==
    /\ last.op = "stopListening"
    /\ last.ran
    /\ last.input = <<TRUE, TRUE>>
    /\ engines[last.gen].st = "running"

\* C3: stopListening() is idempotent: a stopListening() that follows a
\* stopListening() leaves the session state (the flags, the timer handles,
\* the pending timers, the transcripts) as the first call left it.
C3_StopIdempotent ==
    [][(last.op = "stopListening" /\ last.ran /\ last'.op = "stopListening")
          => (SessionView' = SessionView /\ manuallyStopped' = manuallyStopped)]_vars

\* The state after the second of two stopListening() calls in a row, with
\* text in the transcripts.
C3_Witness ==
    /\ last.op = "stopListening"
    /\ last.again
    /\ finalTranscript # <<>>

\* C4: with continuous = true, an audioend that reaches a listening session
\* with no stop requested schedules the restart-debounce timer, and when that
\* timer fires start() is invoked once more (twice in all for the session)
\* and the shadow flag is true again.
C4_AudioEndRestarts ==
    [][/\ (/\ last'.op = "audioend"
           /\ last'.gen = recognitionRef
           /\ continuous
           /\ isListening /\ isListeningRef
           /\ ~stopRequestedRef /\ ~manuallyStoppedRef /\ ~forceStoppedRef)
          => \E t \in timers' : t.kind = "restart" /\ t.id = audioendTimeoutRef'
       /\ (/\ last'.op = "restartTimer"
           /\ ~stopRequestedRef
           /\ startCalls = 1)
          => (/\ CountCalls(last'.calls, "start") = 1
              /\ startCalls' = 2
              /\ (~last'.input => isListeningRef'))]_vars

\* C5: with timeout > 0, once a session has shown listening for a whole
\* timeout window with no result event (counted from startListening() or from
\* the last result), the watchdog has run: isListening is false; and the
\* watchdog's step invokes abort() exactly once and never onError.
C5_SilenceStops ==
    /\ (mounted /\ timeout > 0 /\ quiet >= timeout /\ NoDueTimer) => ~isListening
    /\ (last.op = "inactivityTimer" /\ last.ran) =>
          (/\ CountCalls(last.calls, "abort") = 1
           /\ CountCalls(last.calls, "onError") = 0)

\* C6: an error event of kind not-allowed or network invokes onError exactly
\* once with that kind and leaves isListening false; and from then until the
\* next startListening() no step invokes the engine's start primitive.
C6_FatalError ==
    /\ (last.op = "error" /\ last.input \in {"not-allowed", "network"}) =>
          (/\ Len(last.calls) = 1
           /\ last.calls[1][1] = "onError"
           /\ last.calls[1][3] = last.input
           /\ ~isListening)
    /\ fatalSeen => CountCalls(last.calls, "start") = 0

\* A network error delivered by the bound engine to a session whose shadow
\* flag says it is live.
C6_Witness ==
    /\ last.op = "error"
    /\ last.input = "network"
    /\ last.gen = recognitionRef
    /\ isListeningRef
    /\ fatalSeen

\* C7: an error event of kind aborted or no-speech invokes no callback and
\* changes no field of the session state.
C7_AbsorbedError ==
    [][(last'.op = "error" /\ last'.input \in {"aborted", "no-speech"})
          => (/\ last'.calls = <<>>
              /\ SessionView' = SessionView
              /\ manuallyStopped' = manuallyStopped)]_vars

\* A no-speech error delivered to a listening session that holds text and a
\* pending inactivity timer.
C7_Witness ==
    /\ last.op = "error"
    /\ last.input = "no-speech"
    /\ isListening
    /\ transcript # <<>>
    /\ timers # {}

\* C8: no exception leaves startListening(), stopListening() or
\* resetTranscript(), whichever of start(), abort() and stop() throw.
C8_PublicNeverThrow ==
    last.op \in PublicOps => ~last.escaped

\* stopListening() returned although abort() and stop() both threw.
C8_Witness ==
    /\ last.op = "stopListening"
    /\ last.input = <<TRUE, TRUE>>
    /\ CountCalls(last.calls, "stop") = 1

\* C9: with no speech engine in the runtime, isSupported and isListening are
\* false in every state, startListening() changes no state and invokes no
\* engine primitive, and isSupported never changes.
C9_Unsupported ==
    /\ [](~hasSpeechRecognition => (~isSupported /\ ~isListening))
    /\ [][/\ isSupported' = isSupported
          /\ (~hasSpeechRecognition /\ last'.op = "startListening")
                => (/\ last'.calls = <<>>
                    /\ SessionView' = SessionView
                    /\ manuallyStopped' = manuallyStopped
                    /\ engines' = engines
                    /\ recognitionRef' = recognitionRef)]_vars

\* startListening() was called on a controller without an engine.
C9_Witness ==
    /\ ~hasSpeechRecognition
    /\ last.op = "startListening"
    /\ ~last.ran

\* C10: when startListening() reaches the engine, both transcripts are already
\* empty at the moment start() is invoked.
C10_ClearedBeforeStart ==
    (last.op = "startListening" /\ last.ran) =>
        /\ CountCalls(last.calls, "start") = 1
        /\ last.calls[1][3].transcript = <<>>
        /\ last.calls[1][3].finalTranscript = <<>>

\* startListening() reached the engine from a state where both transcripts
\* held text.
C10_Witness ==
    /\ last.op = "startListening"
    /\ last.ran
    /\ last.input[2]

AllInterim(ev) == \A i \in DOMAIN ev.results : ~ev.results[i].isFinal

AllFinal(ev) == \A i \in DOMAIN ev.results : ev.results[i].isFinal

\* C11: a result event whose hypotheses are all interim leaves finalTranscript
\* unchanged, and a result event whose hypotheses are all final leaves the
\* interim transcript unchanged.
C11_ResultFrame ==
    [][last'.op = "result"
          => (/\ AllInterim(last'.input) => finalTranscript' = finalTranscript
              /\ AllFinal(last'.input) => transcript' = transcript)]_vars

\* A result event of two interim hypotheses reached a session that had
\* already accumulated final text.
C11_Witness ==
    /\ last.op = "result"
    /\ Len(last.input.results) = 2
    /\ AllInterim(last.input)
    /\ last.input.resultIndex = 0
    /\ finalTranscript # <<>>

\* C12: while stopRequested is true no restart-debounce timer is pending; an
\* audioend event received while stopRequested is true schedules no timer; and
\* a restart timer that fires while stopRequested is true invokes nothing and
\* changes no flag.
C12_NoRestartWhileStopRequested ==
    /\ [](stopRequestedRef => \A t \in timers : t.kind # "restart")
    /\ [][/\ (last'.op = "audioend" /\ stopRequestedRef)
              => (timers' = timers /\ audioendTimeoutRef' = audioendTimeoutRef)
          /\ (last'.op = "restartTimer" /\ stopRequestedRef)
              => (/\ last'.calls = <<>>
                  /\ engines' = engines
                  /\ flagVars' = flagVars)]_vars

\* The bound engine of a continuous session delivered audioend after
\* stopListening() had set stopRequested.
C12_Witness ==
    /\ stopRequestedRef
    /\ continuous
    /\ last.op = "audioend"
    /\ last.gen = recognitionRef
    /\ engines[last.gen].st = "stopping"

\* C13: a transcript field that held text becomes empty only in a step of
\* startListening() or resetTranscript(), and such a step leaves both fields
\* empty: no engine event, timer callback or stopListening() empties a field,
\* and no step empties one field while the other keeps text.
C13_ClearedTogether ==
    [][((transcript # <<>> /\ transcript' = <<>>)
           \/ (finalTranscript # <<>> /\ finalTranscript' = <<>>))
          => (/\ last'.op \in {"startListening", "resetTranscript"}
              /\ transcript' = <<>>
              /\ finalTranscript' = <<>>)]_vars

\* resetTranscript() was called while both fields held text.
C13_Witness ==
    /\ last.op = "resetTranscript"
    /\ last.input = <<TRUE, TRUE>>
    /\ transcript = <<>>
    /\ finalTranscript = <<>>

\* C14: resetTranscript() sets both transcript fields to empty, leaves
\* isListening, the shadow flag, stopRequested, manuallyStopped, forceStopped
\* and both timers as they were, and invokes no engine primitive.
C14_ResetFrame ==
    [][last'.op = "resetTranscript"
          => (/\ transcript' = <<>>
              /\ finalTranscript' = <<>>
              /\ flagVars' = flagVars
              /\ timerVars' = timerVars
              /\ engines' = engines
              /\ last'.calls = <<>>)]_vars

\* resetTranscript() was called on a listening session that held final text
\* and had its inactivity timer pending.
C14_Witness ==
    /\ last.op = "resetTranscript"
    /\ last.input[2]
    /\ isListening
    /\ isListeningRef
    /\ \E t \in timers : t.id = inactivityTimeoutRef

\* C15: stopRequested becomes true only in a step of stopListening() and
\* false only in a step of startListening(); no engine event handler and no
\* timer callback changes it, and after the inactivity watchdog has forced a
\* stop stopRequested is false.
C15_StopRequestedWriters ==
    [][/\ (~stopRequestedRef /\ stopRequestedRef') => last'.op = "stopListening"
       /\ (stopRequestedRef /\ ~stopRequestedRef') => last'.op = "startListening"
       /\ (last'.op = "inactivityTimer" /\ last'.ran) => ~stopRequestedRef']_vars

\* The watchdog aborted the engine: the session shows stopped and
\* stopRequested is false.
C15_Witness ==
    /\ last.op = "inactivityTimer"
    /\ last.ran
    /\ ~last.input
    /\ engines[last.gen].st = "stopping"
    /\ ~stopRequestedRef
    /\ ~isListening

\* C16: a restart-debounce callback or an inactivity-timeout callback that
\* runs while stopRequested is true invokes no engine primitive and changes no
\* session state.
C16_CallbacksRevalidate ==
    [][(last'.op \in {"restartTimer", "inactivityTimer"} /\ stopRequestedRef)
          => (/\ last'.calls = <<>>
              /\ engines' = engines
              /\ SessionView' = SessionView
              /\ manuallyStopped' = manuallyStopped)]_vars

\* The inactivity callback ran on a session that stopListening() had stopped
\* and whose end event had reset manuallyStopped: of the flags its guard
\* reads, only the shadow flag holds it back.
C16_Witness ==
    /\ last.op = "inactivityTimer"
    /\ stopRequestedRef
    /\ ~manuallyStoppedRef
    /\ recognitionRef # NoEngine

\* C17: after stopListening() has been called, after the component has
\* unmounted and after the engine's end event, no inactivity timer and no
\* restart timer is pending.
C17_TimersCleanedUp ==
    (\/ (last.op = "stopListening" /\ last.ran)
     \/ last.op = "unmount"
     \/ (last.op = "end" /\ last.gen = recognitionRef))
        => timers = {}

\* C18: stopListening() invokes abort() exactly once, with every flag already
\* set and both timers already cancelled; it invokes stop() exactly once if
\* abort() threw and never if abort() succeeded; an exception of stop() is
\* swallowed; nothing is retried and no timer is scheduled.
C18_StopSequence ==
    (last.op = "stopListening" /\ last.ran) =>
        /\ Len(last.calls) = (IF last.input[1] THEN 2 ELSE 1)
        /\ last.calls[1][1] = "abort"
        /\ CountCalls(last.calls, "abort") = 1
        /\ CountCalls(last.calls, "stop") = (IF last.input[1] THEN 1 ELSE 0)
        /\ LET seen == last.calls[1][3]
           IN  /\ seen.stopRequestedRef
               /\ ~seen.isListening
               /\ ~seen.isListeningRef
               /\ seen.manuallyStoppedRef
               /\ seen.forceStoppedRef
               /\ seen.inactivityTimeoutRef = NoTimer
               /\ seen.audioendTimeoutRef = NoTimer
               /\ seen.timers = {}
        /\ ~last.escaped
        /\ timers = {}

\* stopListening() fell back to stop() after abort() threw, and stop()
\* succeeded.
C18_Witness ==
    /\ last.op = "stopListening"
    /\ last.ran
    /\ last.input = <<TRUE, FALSE>>
    /\ last.calls[2][1] = "stop"

\* C19: if start() throws inside startListening(), isListening and the shadow
\* flag are both false on return, onError has not been invoked and nothing is
\* thrown to the caller.
C19_StartThrowReverts ==
    (last.op = "startListening" /\ last.ran /\ last.input[1]) =>
        /\ ~isListening
        /\ ~isListeningRef
        /\ CountCalls(last.calls, "onError") = 0
        /\ ~last.escaped

\* start() threw because the engine startListening() reached was already
\* started.
C19_Witness ==
    /\ last.op = "startListening"
    /\ last.ran
    /\ last.input[1]
    /\ engines[last.gen].st = "running"

\* C20: after a startListening() that reached the engine and whose start()
\* succeeded, whatever the state before, stopRequested, manuallyStopped and
\* forceStopped are false, isListening and the shadow flag are true, both
\* transcripts are empty, and the call has invoked start() exactly once.
C20_StartResets ==
    (last.op = "startListening" /\ last.ran /\ ~last.input[1]) =>
        /\ ~stopRequestedRef
        /\ ~manuallyStopped
        /\ ~manuallyStoppedRef
        /\ ~forceStoppedRef
        /\ isListening
        /\ isListeningRef
        /\ transcript = <<>>
        /\ finalTranscript = <<>>
        /\ CountCalls(last.calls, "start") = 1
        /\ Len(last.calls) = 1

\* startListening() succeeded on a session that stopListening() had stopped
\* and that still held text in both transcripts.
C20_Witness ==
    /\ last.op = "startListening"
    /\ last.ran
    /\ ~last.input[1]
    /\ last.input[2]
    /\ last.input[3]

\* C21: on the engine's end event the shadow flag becomes false; onEnd is
\* invoked exactly once if manuallyStopped is false and not at all if it is
\* true; if continuous is false or manuallyStopped is true, isListening
\* becomes false and manuallyStopped is cleared; otherwise isListening and
\* manuallyStopped are left as they were.
C21_EndHandler ==
    [][last'.op = "end"
          => (/\ ~isListeningRef'
              /\ last'.calls = (IF manuallyStopped THEN <<>>
                                ELSE <<Call("onEnd", last'.gen, <<>>)>>)
              /\ IF ~continuous \/ manuallyStopped
                 THEN ~isListening' /\ ~manuallyStopped' /\ ~manuallyStoppedRef'
                 ELSE /\ isListening' = isListening
                      /\ manuallyStopped' = manuallyStopped
                      /\ manuallyStoppedRef' = manuallyStoppedRef)]_vars

\* The end event of a session that stopListening() had stopped: onEnd was
\* not invoked and manuallyStopped is cleared.
C21_Witness ==
    /\ last.op = "end"
    /\ last.calls = <<>>
    /\ stopRequestedRef
    /\ continuous
    /\ ~manuallyStopped

\* C22: an error event whose kind is neither aborted nor no-speech invokes
\* onError exactly once, with that kind; an aborted or no-speech event
\* invokes it not at all; and for a kind other than not-allowed and network
\* isListening and the shadow flag are left as they were.
C22_ErrorReports ==
    [][last'.op = "error"
          => (/\ last'.calls = (IF last'.input \in {"aborted", "no-speech"} THEN <<>>
                                ELSE <<Call("onError", last'.gen, last'.input)>>)
              /\ last'.input \notin {"not-allowed", "network"}
                    => (isListening' = isListening /\ isListeningRef' = isListeningRef))]_vars

\* An audio-capture error reached a listening session: reported once, the
\* session still listening.
C22_Witness ==
    /\ last.op = "error"
    /\ last.input = "audio-capture"
    /\ Len(last.calls) = 1
    /\ isListening
    /\ isListeningRef

\* The hypotheses of an event from its result-index cursor to the end, and the
\* text of those of one kind, concatenated in order.
FromCursor(ev) == SubSeq(ev.results, ev.resultIndex + 1, Len(ev.results))

IsFinalHyp(h) == h.isFinal

IsInterimHyp(h) == ~h.isFinal

RECURSIVE Concat(_)
Concat(hs) == IF hs = <<>> THEN <<>> ELSE Head(hs).transcript \o Concat(Tail(hs))

FinalsText(ev) == Concat(SelectSeq(FromCursor(ev), IsFinalHyp))

InterimsText(ev) == Concat(SelectSeq(FromCursor(ev), IsInterimHyp))

\* What a result event does to finalTranscript and which callbacks it invokes:
\* finalTranscript becomes its previous value followed by the final text, and
\* onResult(text, true) then onResult(text, false) are invoked, each once and
\* only for a non-empty text.
ResultFinalAndCalls ==
    LET ev == last'.input
        f == FinalsText(ev)
        i == InterimsText(ev)
    IN  /\ finalTranscript' = finalTranscript \o f
        /\ last'.calls =
              (IF f # <<>> THEN <<Call("onResult", last'.gen, <<f, TRUE>>)>> ELSE <<>>)
              \o (IF i # <<>> THEN <<Call("onResult", last'.gen, <<i, FALSE>>)>> ELSE <<>>)

\* C23 as stated: for a result event, taking the hypotheses from the cursor
\* to the end, finalTranscript becomes its previous value followed by the
\* final text with onResult(text, true) invoked once if that text is
\* non-empty, the interim transcript becomes the interim text with
\* onResult(text, false) invoked once if that text is non-empty, and for a
\* mixed event the final callback comes first.
C23_ResultTexts ==
    [][last'.op = "result"
          => (ResultFinalAndCalls /\ transcript' = InterimsText(last'.input))]_vars

\* C23 amended: as C23, except that the interim transcript becomes the
\* interim text only when that text is non-empty and keeps its previous
\* value otherwise.
C23_ResultTextsAmended ==
    [][last'.op = "result"
          => (/\ ResultFinalAndCalls
              /\ transcript' = (IF InterimsText(last'.input) # <<>>
                                THEN InterimsText(last'.input) ELSE transcript))]_vars

\* A mixed event reached a session that already held final text: both
\* callbacks fired.
C23_Witness ==
    /\ last.op = "result"
    /\ Len(last.calls) = 2
    /\ last.calls[1][3][2]
    /\ Len(finalTranscript) = 2

IsPrefix(s, t) == Len(s) <= Len(t) /\ SubSeq(t, 1, Len(s)) = s

C25_InterimReplaced ==
    [][last'.op = "result"
          => (IF InterimsText(last'.input) = <<>>
              THEN transcript' = transcript
              ELSE transcript' = InterimsText(last'.input))]_vars

\* An event whose cursor skips its first hypothesis and whose second
\* hypothesis, interim, carries the other character reached a session that
\* held final text: the interim transcript is that one character.
C25_Witness ==
    /\ last.op = "result"
    /\ last.input.resultIndex = 1
    /\ ~last.input.results[2].isFinal
    /\ last.input.results[1].transcript # last.input.results[2].transcript
    /\ transcript = last.input.results[2].transcript
    /\ finalTranscript # <<>>

InactivityTimers(tms) == {t \in tms : t.kind = "inactivity"}

\* C26: every result event cancels the pending inactivity timer, and after
\* the event an inactivity timer (a new one, with the whole timeout to run)
\* is pending if and only if timeout > 0 and the shadow flag is true; with
\* timeout 0 no inactivity timer is ever pending and the watchdog never
\* invokes abort().
C26_ResultReschedules ==
    /\ [][last'.op = "result"
            => (/\ InactivityTimers(timers') \subseteq
                      {[id |-> inactivityTimeoutRef', kind |-> "inactivity",
                        left |-> timeout, old |-> FALSE]}
                /\ (InactivityTimers(timers') # {}) <=> (timeout > 0 /\ isListeningRef'))]_vars
    /\ [](timeout = 0 => (/\ InactivityTimers(timers) = {}
                          /\ ~(last.op = "inactivityTimer" /\ last.calls # <<>>)))

\* A result event reached a session whose shadow flag an audioend had
\* cleared: the timer the previous result armed is gone and none is pending.
C26_Witness ==
    /\ last.op = "result"
    /\ timeout > 0
    /\ isListening
    /\ ~isListeningRef
    /\ inactivityTimeoutRef # NoTimer
    /\ timers = {}

RestartTimers(tms) == {t \in tms : t.kind = "restart"}

\* C27: in every reachable state at most one inactivity timer and at most one
\* restart-debounce timer is pending, and each pending timer is the one its
\* handle references: no orphaned timer can fire.
C27_OneTimerPerHandle ==
    /\ Cardinality(InactivityTimers(timers)) <= 1
    /\ Cardinality(RestartTimers(timers)) <= 1
    /\ \A t \in InactivityTimers(timers) : t.id = inactivityTimeoutRef
    /\ \A t \in RestartTimers(timers) : t.id = audioendTimeoutRef

\* A result event rescheduled the inactivity timer of a session that had
\* already received a result: one timer is pending, under the handle.
C27_Witness ==
    /\ last.op = "result"
    /\ finalTranscript # <<>>
    /\ transcript # <<>>
    /\ isListeningRef
    /\ Cardinality(timers) = 1
    /\ \E t \in timers : t.id = inactivityTimeoutRef /\ t.left = timeout

\* C28: when the inactivity timer fires in a session that is listening and
\* not manually stopped, abort() (and nothing else: not stopListening()) is
\* invoked once, and whether or not abort() throws no exception propagates
\* and isListening and the shadow flag are false afterwards.
C28_WatchdogEndsSession ==
    (last.op = "inactivityTimer" /\ last.ran) =>
        /\ Len(last.calls) = 1
        /\ last.calls[1][1] = "abort"
        /\ ~last.escaped
        /\ ~isListening
        /\ ~isListeningRef

\* C29: consumer teardown cancels both pending timers, whatever the flags,
\* and invokes none of start(), abort() and stop(): the engines are left as
\* they were.
C29_TeardownCancels ==
    [][last'.op = "unmount"
          => (/\ timers' = {}
              /\ last'.calls = <<>>
              /\ engines' = engines
              /\ flagVars' = flagVars)]_vars

\* The consumer was torn down while its session was listening, the engine
\* running and the inactivity timer pending.
C29_Witness ==
    /\ last.op = "unmount"
    /\ last.input
    /\ isListening
    /\ isListeningRef
    /\ engines[recognitionRef].st = "running"

EngineEvents == {"audioend", "result", "error", "end"}

\* C30: an option change cancels both pending timers and builds a new engine
\* binding, and from then on an event of a replaced engine, even one that
\* was running when the option changed, changes no session state and
\* invokes no callback of the consumer.
C30_ReplacedEngineSilent ==
    [][/\ last'.op = "rebuild" => timers' = {}
       /\ (last'.op \in EngineEvents /\ last'.gen # recognitionRef)
          => (/\ last'.calls = <<>>
              /\ SessionView' = SessionView
              /\ manuallyStopped' = manuallyStopped)]_vars

\* C32: in every reachable state, if the shadow listening flag is true then
\* the public isListening flag is true, also after error events and failed
\* starts.
C32_ShadowImpliesPublic ==
    isListeningRef => isListening

\* C33: in every reachable state where stopRequested is true, isListening and
\* the shadow flag are false and no timer of either kind is pending, whatever
\* engine events arrive after the stop.
C33_StoppedStaysStopped ==
    stopRequestedRef => (/\ ~isListening
                         /\ ~isListeningRef
                         /\ timers = {})

\* A result event of the bound engine, still running because abort() and
\* stop() both threw, reached a session with stopRequested true and a
\* timeout configured.
C33_Witness ==
    /\ stopRequestedRef
    /\ last.op = "result"
    /\ last.gen = recognitionRef
    /\ engines[last.gen].st = "running"
    /\ timeout > 0

Primitives == {"start", "abort", "stop"}

\* C36: after consumer disposal no timer is scheduled and no engine
\* primitive is invoked any more, even if the engine, which disposal does not
\* stop, delivers further result, audioend, error or end events.
C36_SilentAfterUnmount ==
    [][~mounted
          => (/\ \A t \in timers' : \E u \in timers : u.id = t.id /\ t.left <= u.left
              /\ \A i \in DOMAIN last'.calls : last'.calls[i][1] \notin Primitives)]_vars

\* C37: whenever stopListening() returns, every engine instance that is
\* running has been told to stop by that call (abort() or the fallback
\* stop() was invoked on it), also when the binding was rebuilt between the
\* start and the stop.
C37_StopReachesStartedEngine ==
    (last.op = "stopListening" /\ last.ran) =>
        \A g \in DOMAIN engines :
            engines[g].st = "running"
                => \E i \in DOMAIN last.calls : last.calls[i][2] = g

\* C38: in every reachable state forceStopped equals stopRequested, and
\* manuallyStopped (the state and its ref) being true implies stopRequested
\* is true.
C38_StopFlagsAgree ==
    /\ forceStoppedRef = stopRequestedRef
    /\ manuallyStoppedRef => stopRequestedRef
    /\ manuallyStopped => stopRequestedRef

\* The end event that follows a stopListening() has cleared manuallyStopped:
\* stopRequested and forceStopped are both still true.
C38_Witness ==
    /\ last.op = "end"
    /\ stopRequestedRef
    /\ forceStoppedRef
    /\ ~manuallyStoppedRef
    /\ engines[last.gen].st = "idle"
    /\ last.gen = recognitionRef

\* The current engine has just emitted audioend or end in a continuous
\* session with an inactivity timeout, nobody asked for a stop, and the hook
\* shows listening.
EngineWentQuiet ==
    /\ last.op \in {"audioend", "end"}
    /\ last.gen = recognitionRef
    /\ continuous
    /\ timeout > 0
    /\ isListening
    /\ ~stopRequestedRef

\* C31: in continuous mode with timeout > 0, once the engine has emitted
\* audioend or end without any stop request, then, unless a further result
\* event arrives, eventually the start primitive is invoked again or the
\* public isListening becomes false.
C31_NoDeadListening ==
    EngineWentQuiet ~> (\/ ~isListening
                        \/ CountCalls(last.calls, "start") > 0
                        \/ last.op = "result")

\* C34: an inactivity timer armed during one listening session never aborts
\* a later session: no timer that was already pending when startListening()
\* began the current session invokes the engine's abort primitive.
C34_NoStaleWatchdog ==
    [][(last'.op = "inactivityTimer" /\ CountCalls(last'.calls, "abort") > 0)
          => \A t \in timers \ timers' : ~t.old]_vars

\* The bound engine is stopping and the latest stopListening() was followed
\* by no startListening(), or by the one that has just returned: the end event
\* the engine owes is the one that stop caused.
EndOwedToStop ==
    /\ recognitionRef # NoEngine
    /\ engines[recognitionRef].st = "stopping"
    /\ \/ stopCalled
       \/ last.op = "startListening" /\ last.ran /\ last.input[3]

\* C35: onEnd is not invoked for the end event an engine emits because
\* stopListening() halted it, also when startListening() was called again
\* before that end event is delivered.
C35_NoOnEndAfterStop ==
    [][(EndOwedToStop /\ last'.op = "end" /\ last'.gen = recognitionRef)
          => CountCalls(last'.calls, "onEnd") = 0]_vars
====
